---- MODULE Spec2Model ----
(***************************************************************************)
(* packages/client/src-tauri/src/main.rs: the native entry point of the    *)
(* desktop client.  main() builds the host application, attaches the setup *)
(* callback and the command table (flash_taskbar) and enters the host's    *)
(* run loop.  The host runtime (window management, command dispatch, the   *)
(* attention-request primitive) is the environment: its answers are drawn  *)
(* nondeterministically from the outcomes its API types allow.             *)
(***************************************************************************)
EXTENDS Naturals, Sequences, FiniteSets

\* Number of front-end invocations issued in one run of the application.
MaxInvocations == 3

\* Window labels the host configuration may declare.
Labels == {"main", "aux"}

\* Errors the host can answer request_user_attention with.
HostErrors == {"WindowDestroyed", "OsFailure"}

NoError == "none"

\* () : the payload of a successful command result.
Unit == "()"

VARIABLES
    debug,       \* cfg(debug_assertions): fixed when the binary is built
    pc,          \* position of main: start, setup, running, exited, crashed
    panicMsg,    \* message of the panic that ended the process, "" if none
    hostInit,    \* what Builder::run's initialisation answered: pending, ok, failed
    created,     \* windows the host created from its configuration
    alive,       \* windows that exist now
    focused,     \* the window that has the user's focus, or "none"
    devtools,    \* devtools[w]: the developer-tools panel of w is open
    attention,   \* attention[w]: the urgency signal currently shown for w
    setupRuns,   \* how many times the setup callback has been entered
    setupOk,     \* the setup callback has returned Ok(())
    pending,     \* windows whose front-end has an invoke of flash_taskbar in flight
    requests,    \* host side: every request_user_attention call received
    log          \* command side: every flash_taskbar invocation and its result

vars == <<debug, pc, panicMsg, hostInit, created, alive, focused, devtools,
          attention, setupRuns, setupOk, pending, requests, log>>

hostVars == <<created, alive, focused>>

----------------------------------------------------------------------------
\* Results

Ok(v) == [tag |-> "Ok", val |-> v]

Err(e) == [tag |-> "Err", val |-> e]

HostOk == [ok |-> TRUE, err |-> NoError]

HostErr(e) == [ok |-> FALSE, err |-> e]

\* Display of the host's error type, as e.to_string() renders it.
ToString(e) ==
    CASE e = "WindowDestroyed" -> "window not found"
      [] e = "OsFailure"       -> "failed to send message"

\* The answers the host may give to an attention request against w: a
\* destroyed window cannot be served, a live one is served unless the
\* underlying OS call fails.
HostOutcomes(w) ==
    IF w \in alive
    THEN {HostOk, HostErr("OsFailure")}
    ELSE {HostErr("WindowDestroyed")}

----------------------------------------------------------------------------
\* Init: the process has started, main has not yet called run.

Init ==
    /\ debug \in BOOLEAN
    /\ pc = "start"
    /\ panicMsg = ""
    /\ hostInit = "pending"
    /\ created = {}
    /\ alive = {}
    /\ focused = "none"
    /\ devtools = [w \in Labels |-> FALSE]
    /\ attention = [w \in Labels |-> "None"]
    /\ setupRuns = 0
    /\ setupOk = FALSE
    /\ pending = {}
    /\ requests = <<>>
    /\ log = <<>>

----------------------------------------------------------------------------
\* main: Builder::default().setup(..).invoke_handler(..).run(..).expect(..)

ExpectMsg == "error while running tauri application"

UnwrapNoneMsg == "called Option::unwrap() on a None value"

\* The window the setup callback resolves.
SetupWindowLabel == "main"

\* The kind of attention flash_taskbar asks for.
AttentionKind == "Informational"

\* run(..) answers Err and the error is dropped: main returns normally.
run_fails_ignored ==
    /\ pc = "start"
    /\ hostInit' = "failed"
    /\ pc' = "exited"
    /\ UNCHANGED <<debug, panicMsg, hostVars, devtools, attention, setupRuns,
                   setupOk, pending, requests, log>>

\* run(..) answers Err: expect(..) panics, the run loop is never entered.
run_fails ==
    /\ pc = "start"
    /\ hostInit' = "failed"
    /\ pc' = "crashed"
    /\ panicMsg' = ExpectMsg
    /\ UNCHANGED <<debug, hostVars, devtools, attention, setupRuns, setupOk,
                   pending, requests, log>>

\* The builder carries no setup callback: the host goes straight to its loop.
run_starts_without_setup ==
    /\ pc = "start"
    /\ hostInit' = "ok"
    /\ \E ws \in SUBSET Labels : created' = ws /\ alive' = ws
    /\ pc' = "running"
    /\ UNCHANGED <<debug, panicMsg, focused, devtools, attention, setupRuns,
                   setupOk, pending, requests, log>>

\* run(..) initialises the host, which creates the configured windows and
\* then calls the setup callback attached by .setup(..).
run_starts ==
    /\ pc = "start"
    /\ hostInit' = "ok"
    /\ \E ws \in SUBSET Labels : created' = ws /\ alive' = ws
    /\ pc' = "setup"
    /\ UNCHANGED <<debug, panicMsg, focused, devtools, attention, setupRuns,
                   setupOk, pending, requests, log>>

\* _app.get_window(label): Option<Window>, None as the empty sequence.
get_window(label) == IF label \in alive THEN <<label>> ELSE <<>>

\* The call to open_devtools is missing.
open_devtools_missing(w) == devtools' = devtools

\* window.open_devtools()
open_devtools(w) == devtools' = [devtools EXCEPT ![w] = TRUE]

\* The setup closure, with its cfg(debug_assertions) block compiled in or not.
SetupWith(compiled) ==
    /\ pc = "setup"
    /\ setupRuns' = setupRuns + 1
    /\ IF compiled
       THEN LET found == get_window(SetupWindowLabel) IN
            IF found # <<>>
            THEN /\ open_devtools(found[1])
                 /\ setupOk' = TRUE
                 /\ pc' = "running"
                 /\ panicMsg' = panicMsg
            ELSE \* unwrap() on None
                 /\ pc' = "crashed"
                 /\ panicMsg' = UnwrapNoneMsg
                 /\ UNCHANGED <<devtools, setupOk>>
       ELSE /\ setupOk' = TRUE
            /\ pc' = "running"
            /\ UNCHANGED <<devtools, panicMsg>>
    /\ UNCHANGED <<debug, hostInit, hostVars, attention, pending, requests, log>>

\* The debug block is compiled into every build.
setup_without_cfg == SetupWith(TRUE)

\* A missing window is skipped (if let Some(..)) instead of unwrapped.
setup_lenient ==
    /\ pc = "setup"
    /\ setupRuns' = setupRuns + 1
    /\ IF debug /\ get_window(SetupWindowLabel) # <<>>
       THEN open_devtools(SetupWindowLabel)
       ELSE devtools' = devtools
    /\ setupOk' = TRUE
    /\ pc' = "running"
    /\ UNCHANGED <<debug, panicMsg, hostInit, hostVars, attention, pending,
                   requests, log>>

\* The setup callback of the build at hand.
setup == SetupWith(debug)

----------------------------------------------------------------------------
\* flash_taskbar: the one command of the invoke handler

\* Host primitive Window::request_user_attention: the host records the call
\* and, when it can serve it, shows the signal on that window.
request_user_attention(w, kind, outcome) ==
    /\ requests' = Append(requests, [window |-> w, kind |-> kind])
    /\ attention' = IF outcome.ok THEN [attention EXCEPT ![w] = kind]
                                  ELSE attention

\* The underlying error is replaced by a fixed text.
map_err_fixed(r) == IF r.ok THEN Ok(Unit) ELSE Err("")

\* .map_err(|e| e.to_string())
map_err(r) == IF r.ok THEN Ok(Unit) ELSE Err(ToString(r.err))

\* The handler answers with a text on success.
try_then_ok_payload(m) == IF m.tag = "Err" THEN m ELSE Ok("flashed")

\* `?` returns the Err early; otherwise the function ends in Ok(()).
try_then_ok(m) == IF m.tag = "Err" THEN m ELSE Ok(Unit)

\* What one invocation leaves in the log.
Entry(w, outcome, res) ==
    [window |-> w, valid |-> (w \in alive), host |-> outcome, result |-> res]

\* The handler keeps a flag of its own: a window that is already flashing is
\* not flashed again and the call is answered with an error.
flash_taskbar_debounced(w) ==
    /\ pc = "running"
    /\ w \in pending
    /\ \E outcome \in HostOutcomes(w) :
         /\ request_user_attention(w, AttentionKind, outcome)
         /\ log' = Append(log, Entry(w, outcome,
                     IF attention[w] = AttentionKind
                     THEN Err("already flashing")
                     ELSE try_then_ok(map_err(outcome))))
    /\ pending' = pending \ {w}
    /\ UNCHANGED <<debug, pc, panicMsg, hostInit, hostVars, devtools, setupRuns,
                   setupOk>>

\* The host's error is unwrapped instead of propagated: a failure panics.
flash_taskbar_unwrap(w) ==
    /\ w \in pending
    /\ pc = "running"
    /\ \E outcome \in HostOutcomes(w) :
         /\ request_user_attention(w, AttentionKind, outcome)
         /\ log' = Append(log, Entry(w, outcome, try_then_ok(map_err(outcome))))
         /\ pc' = IF outcome.ok THEN pc ELSE "crashed"
         /\ panicMsg' = IF outcome.ok THEN panicMsg ELSE ToString(outcome.err)
    /\ pending' = pending \ {w}
    /\ UNCHANGED <<debug, hostInit, hostVars, devtools, setupRuns, setupOk>>

\* The request is always sent to the main window, not to the caller's.
flash_taskbar_main_window(w) ==
    /\ pc = "running"
    /\ w \in pending
    /\ \E outcome \in HostOutcomes(SetupWindowLabel) :
         /\ request_user_attention(SetupWindowLabel, AttentionKind, outcome)
         /\ log' = Append(log, Entry(w, outcome, try_then_ok(map_err(outcome))))
    /\ pending' = pending \ {w}
    /\ UNCHANGED <<debug, pc, panicMsg, hostInit, hostVars, devtools, setupRuns,
                   setupOk>>

\* fn flash_taskbar(window: Window) -> Result<(), String>, run by the host's
\* dispatcher for an invoke in flight, with the caller's window injected.
flash_taskbar(w) ==
    /\ pc = "running"
    /\ w \in pending
    /\ \E outcome \in HostOutcomes(w) :
         /\ request_user_attention(w, AttentionKind, outcome)
         /\ log' = Append(log, Entry(w, outcome, try_then_ok(map_err(outcome))))
    /\ pending' = pending \ {w}
    /\ UNCHANGED <<debug, pc, panicMsg, hostInit, hostVars, devtools, setupRuns,
                   setupOk>>

----------------------------------------------------------------------------
\* The host's run loop: what the front-end, the user and the OS do meanwhile

\* The front-end of window w invokes the command; the run loop accepts it.
invoke(w) ==
    /\ pc = "running"
    /\ w \in alive
    /\ w \notin pending
    /\ Len(log) + Cardinality(pending) < MaxInvocations
    /\ pending' = pending \cup {w}
    /\ UNCHANGED <<debug, pc, panicMsg, hostInit, hostVars, devtools, attention,
                   setupRuns, setupOk, requests, log>>

\* Window w is closed and destroyed.
close_window(w) ==
    /\ pc = "running"
    /\ w \in alive
    /\ alive' = alive \ {w}
    /\ focused' = IF focused = w THEN "none" ELSE focused
    /\ devtools' = [devtools EXCEPT ![w] = FALSE]
    /\ attention' = [attention EXCEPT ![w] = "None"]
    /\ UNCHANGED <<debug, pc, panicMsg, hostInit, created, setupRuns, setupOk,
                   pending, requests, log>>

\* The user focuses window w: the OS clears its urgency signal.
focus_window(w) ==
    /\ pc = "running"
    /\ w \in alive
    /\ focused # w
    /\ focused' = w
    /\ attention' = [attention EXCEPT ![w] = "None"]
    /\ UNCHANGED <<debug, pc, panicMsg, hostInit, created, alive, devtools,
                   setupRuns, setupOk, pending, requests, log>>

\* The application is closed: the run loop ends and main returns.
exit ==
    /\ pc = "running"
    /\ pc' = "exited"
    /\ UNCHANGED <<debug, panicMsg, hostInit, hostVars, devtools, attention,
                   setupRuns, setupOk, pending, requests, log>>

Next ==
    \/ run_fails
    \/ run_starts
    \/ setup
    \/ \E w \in Labels : invoke(w)
    \/ \E w \in Labels : flash_taskbar(w)
    \/ \E w \in Labels : close_window(w)
    \/ \E w \in Labels : focus_window(w)
    \/ exit

Spec == Init /\ [][Next]_vars

TypeOK ==
    /\ debug \in BOOLEAN
    /\ pc \in {"start", "setup", "running", "exited", "crashed"}
    /\ panicMsg \in {"", ExpectMsg, UnwrapNoneMsg}
    /\ hostInit \in {"pending", "ok", "failed"}
    /\ created \subseteq Labels
    /\ alive \subseteq created
    /\ focused \in alive \cup {"none"}
    /\ devtools \in [Labels -> BOOLEAN]
    /\ attention \in [Labels -> {"None", AttentionKind}]
    /\ setupRuns \in 0..1
    /\ pending \subseteq created
    /\ Len(log) <= MaxInvocations

----------------------------------------------------------------------------
\* Properties

Terminal == {"exited", "crashed"}

\* The log entry an invocation step has just appended.
Invoked == Len(log') = Len(log) + 1

NewEntry == log'[Len(log')]

\* C1: every flash_taskbar invocation made while the application runs, on a
\* valid window (focused or not) and with the host's request_user_attention
\* succeeding, returns Ok(()): a success result with no payload.
C1_SuccessNoPayload ==
    \A i \in DOMAIN log :
        (log[i].valid /\ log[i].host.ok)
            => (log[i].result.tag = "Ok" /\ log[i].result.val = Unit)

\* C1 witness: an unfocused valid window was flashed and the call returned Ok(()).
C1_Witness ==
    /\ Len(log) >= 1
    /\ log[1].valid /\ log[1].host.ok
    /\ log[1].result.tag = "Ok"
    /\ focused # log[1].window
    /\ attention[log[1].window] = "Informational"

\* C2: whenever the host's request fails, the command returns Err carrying the
\* (non-empty) string form of the host's error, never a success; and every
\* invocation, failing or not, has issued exactly one request: no retry.
C2_FailurePropagatedOnce ==
    /\ Len(requests) = Len(log)
    /\ \A i \in DOMAIN log :
        ~log[i].host.ok
            => /\ log[i].result.tag = "Err"
               /\ log[i].result.val # ""
               /\ log[i].result.val =
                    (IF log[i].host.err = "WindowDestroyed"
                     THEN "window not found" ELSE "failed to send message")

\* C2 witness: an invoke in flight was served after its window was destroyed.
C2_Witness ==
    /\ Len(log) >= 1
    /\ ~log[1].valid
    /\ log[1].host.err = "WindowDestroyed"
    /\ log[1].result.tag = "Err"
    /\ Len(requests) = 1

\* C3 as stated: every invocation made while its window is valid returns
\* success.
C3_Original ==
    \A i \in DOMAIN log : log[i].valid => log[i].result.tag = "Ok"

\* C3 amended: every invocation whose host request succeeds returns success,
\* and the result of an invocation is determined by the host's answer to that
\* invocation alone: two invocations with the same answer have the same
\* result, whatever number of invocations preceded them and in whatever order.
C3_Stateless ==
    \A i \in DOMAIN log :
        /\ log[i].host.ok => log[i].result.tag = "Ok"
        /\ \A j \in DOMAIN log :
             log[i].host = log[j].host => log[i].result = log[j].result

\* C3 witness: the same window flashed twice in succession, both successful.
C3_Witness ==
    /\ Len(log) >= 2
    /\ log[1].window = log[2].window
    /\ log[1].host.ok /\ log[2].host.ok
    /\ log[1].result.tag = "Ok" /\ log[2].result.tag = "Ok"

\* C4: if the host reports an initialisation failure, the process has
\* panicked with "error while running tauri application", the setup callback
\* and the run loop were never entered, and no flash_taskbar invocation is
\* ever accepted or dispatched.
C4_InitFailureIsFatal ==
    hostInit = "failed"
        => /\ pc = "crashed"
           /\ panicMsg = "error while running tauri application"
           /\ setupRuns = 0
           /\ pending = {}
           /\ log = <<>>
           /\ requests = <<>>

\* C4 witness: the host failed to initialise and the process is down.
C4_Witness == hostInit = "failed" /\ pc = "crashed"

\* C5: in a release build the developer-tools panel of every window is closed
\* in every reachable state, whatever commands the front-end invokes.
C5_NoDevtoolsInRelease ==
    ~debug => \A w \in Labels : ~devtools[w]

\* C5 witness: a release build has run setup with "main" present and has
\* served a command.
C5_Witness ==
    /\ ~debug
    /\ setupOk
    /\ "main" \in created
    /\ Len(log) >= 1

\* C6: in a debug build with a window "main", the step that completes the
\* setup callback leaves the developer-tools panel of "main" open, setup
\* returned Ok(()) and the application running.
C6_DebugSetupOpensDevtools ==
    [][(debug /\ "main" \in alive /\ setupRuns' = setupRuns + 1)
          => (devtools'["main"] /\ setupOk' /\ pc' = "running")]_vars

\* C6 witness: a debug build after setup, with the panel of "main" open.
C6_Witness ==
    /\ debug
    /\ setupRuns = 1
    /\ setupOk
    /\ devtools["main"]

\* C7: the setup callback runs at most once, and whenever a flash_taskbar
\* invoke has been accepted or dispatched, setup has run exactly once and has
\* returned: no command is in flight or executed before or during setup.
C7_SetupBeforeCommands ==
    /\ setupRuns <= 1
    /\ (pending # {} \/ log # <<>> \/ requests # <<>>)
          => (setupRuns = 1 /\ setupOk /\ pc # "setup" /\ pc # "start")

\* C7 witness: a command was dispatched after the one run of setup.
C7_Witness == log # <<>> /\ setupRuns = 1 /\ pending # {}

\* C8: once setup has run: in a debug build without a window "main" the
\* process has panicked in setup and nothing was ever dispatched; in a release
\* build setup returned success and the application went on to run, whether
\* or not "main" exists.
C8_MissingMainFatalOnlyInDebug ==
    setupRuns = 1
        => /\ (debug /\ "main" \notin created)
                => /\ pc = "crashed"
                   /\ panicMsg = "called Option::unwrap() on a None value"
                   /\ ~setupOk
                   /\ pending = {} /\ log = <<>>
           /\ ~debug
                => /\ setupOk
                   /\ pc \in {"running", "exited"}
                   /\ panicMsg = ""

\* C8 witness: a debug build whose configuration has no "main" died in setup.
C8_Witness ==
    /\ debug
    /\ "main" \notin created
    /\ setupRuns = 1
    /\ pc = "crashed"

\* C9: a flash_taskbar invocation issues exactly one attention request, of
\* kind Informational, against the window the dispatcher injected (the one
\* whose invoke was in flight), and leaves the attention state of every other
\* window, the devtools state, the windows and the lifecycle state unchanged.
C9_OneInformationalRequestFrame ==
    [][Invoked
          => /\ Len(requests') = Len(requests) + 1
             /\ requests'[Len(requests')] =
                  [window |-> NewEntry.window, kind |-> "Informational"]
             /\ NewEntry.window \in pending
             /\ pending' = pending \ {NewEntry.window}
             /\ \A v \in Labels \ {NewEntry.window} : attention'[v] = attention[v]
             /\ NewEntry.host.ok => attention'[NewEntry.window] = "Informational"
             /\ UNCHANGED <<devtools, pc, panicMsg, hostVars, setupRuns, setupOk>>]_vars

\* C9 witness: "aux" was flashed while "main" exists and shows no signal.
C9_Witness ==
    /\ Len(log) >= 1
    /\ log[1].window = "aux"
    /\ requests[1].window = "aux"
    /\ attention["aux"] = "Informational"
    /\ "main" \in alive
    /\ attention["main"] = "None"

\* What C10 says of the lifecycle: an invocation starts and ends in the
\* running state; a process that crashes does so from startup or setup; it
\* exits only from the running state, by the host's close, not by a command;
\* and nothing is accepted or dispatched once it has exited or crashed.
Lifecycle ==
    /\ Invoked => (pc = "running" /\ pc' = "running")
    /\ (pc' = "crashed" /\ pc # "crashed") => (pc \in {"start", "setup"} /\ log = <<>>)
    /\ (pc' = "exited" /\ pc # "exited") => (pc = "running" /\ log' = log)
    /\ pc \in Terminal => (pc' = pc /\ log' = log /\ pending' = pending
                              /\ requests' = requests)

\* C10 as stated: the lifecycle above, and any invocation that follows
\* earlier ones and is made with a valid window succeeds.
C10_Original ==
    [][/\ Lifecycle
       /\ (Invoked /\ log # <<>> /\ NewEntry.valid) => NewEntry.result.tag = "Ok"]_vars

\* C10 amended: the lifecycle above, and any invocation that follows earlier
\* ones, successful or failing, and whose host request succeeds returns
\* success.
C10_FailureNeverTerminates ==
    [][/\ Lifecycle
       /\ (Invoked /\ log # <<>> /\ NewEntry.host.ok)
             => (NewEntry.valid /\ NewEntry.result.tag = "Ok")]_vars

\* C10 witness: an invocation failed, a later one succeeded, still running.
C10_Witness ==
    /\ Len(log) >= 2
    /\ log[1].result.tag = "Err"
    /\ log[2].result.tag = "Ok"
    /\ pc = "running"

====
